---------------------------- MODULE Spec2Model ----------------------------
(***************************************************************************)
(* A model of the dance-video library (src/app.py): a Streamlit script     *)
(* that loads a spreadsheet through a time-boxed cache, filters and sorts  *)
(* it for display, and adds / updates / deletes rows by writing the whole  *)
(* table back.                                                             *)
(*                                                                         *)
(* Strings are sequences of code points.  An empty spreadsheet cell is the *)
(* empty string in the sheet and NaN in a DataFrame read from it.          *)
(***************************************************************************)
EXTENDS Integers, Sequences, FiniteSets, TLC

VARIABLES
    remote,         \* the spreadsheet: a sequence of rows of cells
    cache,          \* st.cache_data entry of load_data(): absent, or the value it returned
    df,             \* the normalized table of the current script run
    pc,             \* where the session's script run ended
    msg,            \* the message the last handler showed
    dialog,         \* the open st.dialog, with the arguments it was opened with
    events,         \* history: the I/O calls of the last handler, in order
    lastOp,         \* history: what the last handler was given and what it did
    cacheStale,     \* history: the cache entry was fetched before this session's last write
    dfStale,        \* history: df was served from such an entry
    extSinceFetch,  \* history: the sheet was edited elsewhere after the cache entry was fetched
    writes,         \* history: the number of tables this session has written
    edits,          \* history: the number of edits made elsewhere
    table,          \* (browse / search specifications) the table under the filters
    sel,            \* (browse / search specifications) the sidebar selections
    view            \* (browse / search specifications) what the last step computed

vars == <<remote, cache, df, pc, msg, dialog, events, lastOp,
          cacheStale, dfStale, extSinceFetch, writes, edits, table, sel, view>>

sessionVars == <<remote, cache, df, pc, msg, dialog, events, lastOp,
                 cacheStale, dfStale, extSinceFetch, writes, edits>>

browseVars == <<table, sel, view>>

----------------------------------------------------------------------------
(* Bounds *)

\* rows of the spreadsheet when the session starts
MaxRows == 2

\* tables the session writes
MaxWrites == 2

\* edits made elsewhere
MaxEdits == 1

----------------------------------------------------------------------------
(* Strings and cells *)

Empty == <<>>

\* a missing value (float NaN / None) in a DataFrame; not a string of the model
NaN == <<0>>

YouTube == <<89, 111, 117, 84, 117, 98, 101>>

IsNa(c) == c = NaN

\* Python truthiness of a cell used in "if x:" / "if not x:"
Truthy(c) == c # Empty /\ c # NaN

Range(s) == {s[i] : i \in 1..Len(s)}

----------------------------------------------------------------------------
(* The Record Store Adapter: conn.read / conn.update *)

\* conn.read: every row gets the label of its offset, an empty cell reads as NaN
ReadCell(c) == IF c = Empty THEN NaN ELSE c

FromSheet(rows) ==
    [p \in 1..Len(rows) |->
        [idx      |-> p - 1,
         dancer   |-> ReadCell(rows[p].dancer),
         disc     |-> ReadCell(rows[p].disc),
         platform |-> ReadCell(rows[p].platform),
         img      |-> ReadCell(rows[p].img),
         video    |-> ReadCell(rows[p].video),
         memo     |-> ReadCell(rows[p].memo)]]

\* conn.update: the whole frame replaces the sheet; labels are not written,
\* a missing value is written as an empty cell
WriteCell(c) == IF IsNa(c) THEN Empty ELSE c

ToSheet(d) ==
    [p \in 1..Len(d) |->
        [dancer   |-> WriteCell(d[p].dancer),
         disc     |-> WriteCell(d[p].disc),
         platform |-> WriteCell(d[p].platform),
         img      |-> WriteCell(d[p].img),
         video    |-> WriteCell(d[p].video),
         memo     |-> WriteCell(d[p].memo)]]

----------------------------------------------------------------------------
(* The Schema Normalizer *)

FillNa(c, dflt) == IF IsNa(c) THEN dflt ELSE c

\* df['memo'].fillna(""), df['platform'].fillna("YouTube")
Normalize(d) ==
    [p \in 1..Len(d) |->
        [d[p] EXCEPT !.memo = FillNa(@, Empty), !.platform = FillNa(@, YouTube)]]


\* df.empty: no rows (a failed load returns pd.DataFrame(), which has none)
IsEmptyFrame(d) == Len(d) = 0

Labels(d) == {d[p].idx : p \in 1..Len(d)}

HasLabel(d, i) == i \in Labels(d)

PosOf(d, i) == CHOOSE p \in 1..Len(d) : d[p].idx = i

----------------------------------------------------------------------------
(* The Mutation Coordinator: the table each handler hands to conn.update *)

\* NewRow without the memo of the form
NewRowNoMemo(dancer, disc, img, video, memo) ==
    [idx |-> 0, dancer |-> dancer, disc |-> disc, platform |-> NaN,
     img |-> img, video |-> video, memo |-> Empty]

\* the one-row frame of the Register form; it has no platform column
NewRow(dancer, disc, img, video, memo) ==
    [idx |-> 0, dancer |-> dancer, disc |-> disc, platform |-> NaN,
     img |-> img, video |-> video, memo |-> memo]

\* pd.concat([df, new_row], ignore_index=True)
Concat(d, row) ==
    [p \in 1..(Len(d) + 1) |->
        IF p <= Len(d) THEN [d[p] EXCEPT !.idx = p - 1]
        ELSE [row EXCEPT !.idx = p - 1]]

SetFields(r, rec) ==
    [r EXCEPT !.dancer = rec.dancer, !.disc = rec.disc, !.img = rec.img,
              !.video = rec.video, !.memo = rec.memo]

\* the five curr_df.at[index, col] = value assignments: .at sets the cells of the
\* row labelled index, and enlarges the frame by a row with that label when no
\* row has it (the cells not assigned are missing values)
AtSet(d, index, rec) ==
    IF HasLabel(d, index)
    THEN [p \in 1..Len(d) |-> IF d[p].idx = index THEN SetFields(d[p], rec) ELSE d[p]]
    ELSE Append(d, SetFields([idx |-> index, dancer |-> NaN, disc |-> NaN,
                              platform |-> NaN, img |-> NaN, video |-> NaN,
                              memo |-> NaN], rec))

\* drop(index, errors="ignore"): no KeyError
DropNeverRaises(d, index) == FALSE

\* a drop by 1-based position instead of by label
DropByPosition(d, index) == SelectSeq(d, LAMBDA r : r.idx + 1 # index)

\* curr_df.drop(index) raises KeyError when no row is labelled index
DropRaises(d, index) == ~HasLabel(d, index)

Drop(d, index) == SelectSeq(d, LAMBDA r : r.idx # index)

----------------------------------------------------------------------------
(* The values the session specification draws its inputs from *)

sA == <<97>>
sB == <<98>>
sC == <<99>>
dW == <<87>>
dT == <<84>>
sU == <<117>>
sV == <<118>>
sM == <<109>>
sS == <<115>>

NoSel == [dancers |-> {}, discs |-> {}, keywords |-> <<>>]

\* the link upload_image_to_drive returns for an uploaded file
DriveUrl == <<100>>

SheetRows ==
    { [dancer |-> sA, disc |-> dW, platform |-> Empty, img |-> sU, video |-> sV,
       memo |-> Empty],
      [dancer |-> sB, disc |-> dW, platform |-> sS, img |-> sU, video |-> sV,
       memo |-> sM] }

SheetTables == UNION {[1..n -> SheetRows] : n \in 0..MaxRows}

NoRec == [dancer |-> Empty, disc |-> Empty, img |-> Empty, video |-> Empty,
          memo |-> Empty]

\* what the Register form can submit: every field filled in, or one of the
\* dancer name, the image URL and the video URL left empty
FullInput == [dancer |-> sC, disc |-> dT, img |-> sU, video |-> sV, memo |-> sM]

RegisterInputs ==
    { FullInput,
      [FullInput EXCEPT !.dancer = Empty],
      [FullInput EXCEPT !.img = Empty],
      [FullInput EXCEPT !.video = Empty] }

\* what the edit form can submit
EditInputs ==
    { FullInput, [FullInput EXCEPT !.dancer = Empty] }

\* the uploaded file of the edit form: none, one whose upload fails, one whose upload succeeds
Uploads == {"none", "fail", "ok"}

NoDialog == [kind |-> "none", index |-> 0, row |-> NoRec]

NoCache == [has |-> FALSE, val |-> <<>>]

RowRec(r) == [dancer |-> r.dancer, disc |-> r.disc, img |-> r.img,
              video |-> r.video, memo |-> r.memo]

Op(kind, outcome, index, rec, link) ==
    [kind |-> kind, outcome |-> outcome, index |-> index, rec |-> rec, link |-> link]

----------------------------------------------------------------------------
(* The script run: load_data and the checks before the first widget *)

ReadEvent(ok) == IF ok THEN "read_ok" ELSE "read_err"

WriteEvent(ok) == IF ok THEN "write_ok" ELSE "write_err"

\* load_data() under st.cache_data(ttl=600), c being the cache it finds: a
\* cached value is returned without a fetch; otherwise conn.read is called, and
\* a failure returns pd.DataFrame()
LoadData(c, lok) ==
    IF c.has THEN c.val
    ELSE IF lok THEN FromSheet(remote) ELSE <<>>

\* the function returns normally in both cases, so its value is cached
CacheAfterLoad(c, lok) == [has |-> TRUE, val |-> LoadData(c, lok)]

\* a handler that leaves the cache as it is
CacheKept(c) == c

\* st.cache_data.clear()
CacheClear(c) == NoCache

LoadEvents(c, lok) == IF c.has THEN <<>> ELSE <<ReadEvent(lok)>>

StaleAfterLoad(c) == IF c.has THEN cacheStale ELSE FALSE

ExtAfterLoad(c) == IF c.has THEN extSinceFetch ELSE FALSE

\* every variable of the session after a handler
Finish(rem, c, d, p, m, dlg, ev, op, cs, ds, ex) ==
    /\ remote' = rem
    /\ cache' = c
    /\ df' = d
    /\ pc' = p
    /\ msg' = m
    /\ dialog' = dlg
    /\ events' = ev
    /\ lastOp' = op
    /\ cacheStale' = cs
    /\ dfStale' = ds
    /\ extSinceFetch' = ex
    /\ writes' = IF m = "success" THEN writes + 1 ELSE writes
    /\ UNCHANGED edits
    /\ UNCHANGED browseVars

\* df.empty: st.warning and st.stop() before any widget is built
StopEmpty(c, lok) ==
    Finish(remote, CacheAfterLoad(c, lok), <<>>, "stopped", "warning", NoDialog,
           LoadEvents(c, lok), Op("run", "stopped", 0, NoRec, Empty),
           StaleAfterLoad(c), StaleAfterLoad(c), ExtAfterLoad(c))

\* the script runs on from the handler, which wrote nothing: to its end (the
\* page is shown), or to an uncaught exception (p = "crashed")
ShowPage(c, lok, p, kind, outcome, m, rec) ==
    Finish(remote, CacheAfterLoad(c, lok), Normalize(LoadData(c, lok)), p, m,
           NoDialog, LoadEvents(c, lok), Op(kind, outcome, 0, rec, Empty),
           StaleAfterLoad(c), StaleAfterLoad(c), ExtAfterLoad(c))

\* the run st.rerun() asked for, or the session's first run
Rerun(lok) ==
    /\ pc = "rerun"
    /\ IF IsEmptyFrame(LoadData(cache, lok)) THEN StopEmpty(cache, lok)
       ELSE ShowPage(cache, lok, "shown", "run", "ok", "none", NoRec)

\* a run the user triggers without a handler (browser reload, a filter change)
Refresh(lok) ==
    /\ pc # "rerun"
    /\ IF IsEmptyFrame(LoadData(cache, lok)) THEN StopEmpty(cache, lok)
       ELSE ShowPage(cache, lok, "shown", "run", "ok", "none", NoRec)

\* the message a handler ends with: st.success, st.error, or the exception
\* the script runner shows when nothing caught it
HandlerMsg(outcome) ==
    CASE outcome = "ok" -> "success"
      [] outcome = "name_error" -> "exception"
      [] OTHER -> "error"

----------------------------------------------------------------------------
(* The Thumbnail Resolver *)

\* [0-9A-Za-z_-]
IdChars == (48..57) \cup (65..90) \cup (97..122) \cup {95, 45}

\* the alternatives without v=
PrefixesNoQuery == <<<<47>>, <<98, 101, 47>>, <<101, 109, 98, 101, 100, 47>>>>

\* the alternatives of (?:v=|\/|be\/|embed\/), in the order they are tried
Prefixes == <<<<118, 61>>, <<47>>, <<98, 101, 47>>, <<101, 109, 98, 101, 100, 47>>>>

\* the text has p at position i
HasAt(text, i, p) ==
    i + Len(p) - 1 <= Len(text) /\ SubSeq(text, i, i + Len(p) - 1) = p

\* ([0-9A-Za-z_-]{11}) matches at position j
IdAt(text, j) == j + 10 <= Len(text) /\ \A k \in j..(j + 10) : text[k] \in IdChars

\* the alternatives that lead to a match starting at position i
AltsAt(text, i) ==
    {n \in 1..Len(Prefixes) :
        HasAt(text, i, Prefixes[n]) /\ IdAt(text, i + Len(Prefixes[n]))}

\* the positions re.search can match at
MatchStarts(text) == {i \in 1..Len(text) : AltsAt(text, i) # {}}

\* match.group(1) of the leftmost match, first alternative first
VideoId(text) ==
    LET i == CHOOSE a \in MatchStarts(text) : \A b \in MatchStarts(text) : a <= b
        n == CHOOSE a \in AltsAt(text, i) : \A b \in AltsAt(text, i) : a <= b
        j == i + Len(Prefixes[n])
    IN  SubSeq(text, j, j + 10)

\* f"https://img.youtube.com/vi/{video_id}/hqdefault.jpg"
Thumbnail(video_id) ==
    <<104, 116, 116, 112, 115, 58, 47, 47, 105, 109, 103, 46, 121, 111, 117, 116, 117, 98, 101, 46, 99, 111, 109, 47, 118, 105, 47>> \o video_id \o <<47, 104, 113, 100, 101, 102, 97, 117, 108, 116, 46, 106, 112, 103>>

get_thumbnail_url(video_url) ==
    IF video_url = Empty THEN Empty
    ELSE IF MatchStarts(video_url) # {} THEN Thumbnail(VideoId(video_url))
    ELSE Empty

----------------------------------------------------------------------------
(* Add: the Register button of the sidebar *)

\* get_thumbnail_url is defined at line 586 and the Register handler calls it at
\* line 426 of the same top-to-bottom script run: the name is not bound yet
ThumbnailBound == FALSE

\* new_img_url of the row: the typed URL, or the generated thumbnail when no URL
\* is typed and the resolver returns one
AddImg(in) ==
    IF ~Truthy(in.img) /\ Truthy(in.video) /\ Truthy(get_thumbnail_url(in.video))
    THEN get_thumbnail_url(in.video)
    ELSE in.img

\* the frame the Register handler hands to conn.update
AddTable(d, in) ==
    Concat(d, NewRow(in.dancer, in.disc, AddImg(in), in.video, in.memo))

\* the path the Register handler takes
RegisterOutcome(in, wok) ==
    IF ~Truthy(in.dancer) THEN "invalid"
    ELSE IF ~Truthy(in.video) THEN "invalid"
    ELSE IF ~Truthy(in.img) /\ ~ThumbnailBound THEN "name_error"
    ELSE IF wok THEN "ok" ELSE "write_failed"

Register(in, lok, wok) ==
    /\ pc \in {"shown", "crashed"}
    /\ LET raw == LoadData(cache, lok)
           d   == Normalize(raw)
           c1  == CacheAfterLoad(cache, lok)
           out == RegisterOutcome(in, wok)
       IN IF IsEmptyFrame(raw) THEN StopEmpty(cache, lok)
          ELSE IF out \in {"invalid", "name_error"}
          THEN ShowPage(cache, lok, IF out = "invalid" THEN "shown" ELSE "crashed",
                        "add", out, HandlerMsg(out), in)
          ELSE IF out = "write_failed"
          THEN Finish(remote, c1, d, "shown", HandlerMsg(out), NoDialog,
                      LoadEvents(cache, lok) \o <<WriteEvent(wok)>>,
                      Op("add", out, 0, in, Empty),
                      StaleAfterLoad(cache), StaleAfterLoad(cache), ExtAfterLoad(cache))
          ELSE /\ writes < MaxWrites
               /\ Finish(ToSheet(AddTable(d, in)), CacheClear(c1), d, "rerun",
                         HandlerMsg(out), NoDialog,
                         LoadEvents(cache, lok) \o <<WriteEvent(wok)>>,
                         Op("add", out, 0, in, Empty),
                         CacheClear(c1).has, StaleAfterLoad(cache), ExtAfterLoad(cache))

----------------------------------------------------------------------------
(* The buttons that only reload *)

\* "Reload Data" (sidebar) and the footer reload button: clear the cache, rerun
ReloadData(lok) ==
    /\ pc = "shown"
    /\ IF IsEmptyFrame(LoadData(cache, lok)) THEN StopEmpty(cache, lok)
       ELSE Finish(remote, CacheClear(CacheAfterLoad(cache, lok)),
                   Normalize(LoadData(cache, lok)), "rerun", "none", NoDialog,
                   LoadEvents(cache, lok), Op("reload", "ok", 0, NoRec, Empty),
                   CacheClear(CacheAfterLoad(cache, lok)).has /\ StaleAfterLoad(cache),
                   StaleAfterLoad(cache), ExtAfterLoad(cache))

\* "Home / Reset": the on_click callback clear_filters clears the cache, then
\* the script runs
HomeReset(lok) ==
    /\ pc = "shown"
    /\ IF IsEmptyFrame(LoadData(CacheClear(cache), lok))
       THEN StopEmpty(CacheClear(cache), lok)
       ELSE ShowPage(CacheClear(cache), lok, "shown", "reset", "ok", "none", NoRec)

----------------------------------------------------------------------------
(* The edit and delete dialogs *)

\* the labels the cards of the page carry (original_idx of render_video_grid)
DisplayedIdx(d) == Labels(d)

\* a card's edit or delete button: the run that handles the click opens the
\* dialog with the label and the row the card has in that run
OpenDialog(kind, i, lok) ==
    /\ pc = "shown"
    /\ i \in DisplayedIdx(df)
    /\ LET raw == LoadData(cache, lok)
           d   == Normalize(raw)
       IN IF IsEmptyFrame(raw) THEN StopEmpty(cache, lok)
          ELSE IF i \notin DisplayedIdx(d)
          THEN ShowPage(cache, lok, "shown", "run", "ok", "none", NoRec)
          ELSE Finish(remote, CacheAfterLoad(cache, lok), d, "shown", "none",
                      [kind |-> kind, index |-> i, row |-> RowRec(d[PosOf(d, i)])],
                      LoadEvents(cache, lok), Op("open", "ok", i, NoRec, Empty),
                      StaleAfterLoad(cache), StaleAfterLoad(cache), ExtAfterLoad(cache))

OpenEdit(i, lok) == OpenDialog("edit", i, lok)

OpenDelete(i, lok) == OpenDialog("delete", i, lok)

\* upload_image_to_drive: a link, or None after it has shown the error
UploadResult(file) == IF file = "ok" THEN DriveUrl ELSE Empty

UploadEvents(file) ==
    IF file = "none" THEN <<>>
    ELSE IF Truthy(UploadResult(file)) THEN <<"upload_ok">> ELSE <<"upload_err">>

\* the else branch without st.stop()
UploadNeverAborts(file) == FALSE

\* "if drive_link: ... else: st.error(...); st.stop()"
UploadAborts(file) == file # "none" /\ ~Truthy(UploadResult(file))

\* final_img_url: the typed URL, replaced by the link of the uploaded file
FinalImg(in, file) ==
    IF file # "none" /\ Truthy(UploadResult(file)) THEN UploadResult(file) ELSE in.img

\* the frame edit_video_dialog hands to conn.update
UpdateTable(curr, index, in, file) ==
    AtSet(curr, index, [in EXCEPT !.img = FinalImg(in, file)])

\* the path edit_video_dialog takes after the submit button
UpdateOutcome(file, rok, wok) ==
    IF UploadAborts(file) THEN "upload_failed"
    ELSE IF ~rok THEN "read_failed"
    ELSE IF ~wok THEN "write_failed"
    ELSE "ok"

\* the path delete_video_dialog takes after the confirm button
DeleteOutcome(curr, index, rok, wok) ==
    IF ~rok THEN "read_failed"
    ELSE IF DropRaises(curr, index) THEN "apply_failed"
    ELSE IF ~wok THEN "write_failed"
    ELSE "ok"

\* the table calls a dialog handler makes on that path
DialogEvents(outcome, rok, wok) ==
    (IF outcome = "upload_failed" THEN <<>> ELSE <<ReadEvent(rok)>>)
    \o (IF outcome \in {"ok", "write_failed"} THEN <<WriteEvent(wok)>> ELSE <<>>)

\* a handler of a dialog that wrote nothing: the dialog stays open
DialogFails(kind, outcome, in, file, ev) ==
    Finish(remote, cache, df, "shown", HandlerMsg(outcome), dialog, ev,
           Op(kind, outcome, dialog.index, in, UploadResult(file)),
           cacheStale, dfStale, extSinceFetch)

\* a handler of a dialog that wrote frame t
DialogWrites(kind, in, file, ev, t) ==
    /\ writes < MaxWrites
    /\ Finish(ToSheet(t), CacheClear(cache), df, "rerun", HandlerMsg("ok"), NoDialog, ev,
              Op(kind, "ok", dialog.index, in, UploadResult(file)),
              CacheClear(cache).has, dfStale, extSinceFetch)

\* the submit button of edit_video_dialog
SubmitUpdate(in, file, rok, wok) ==
    /\ pc = "shown"
    /\ dialog.kind = "edit"
    /\ LET out == UpdateOutcome(file, rok, wok)
           ev  == UploadEvents(file) \o DialogEvents(out, rok, wok)
       IN IF out # "ok"
          THEN DialogFails("update", out, in, file, ev)
          ELSE DialogWrites("update", in, file, ev,
                            UpdateTable(FromSheet(remote), dialog.index, in, file))

\* the confirm button of delete_video_dialog
ConfirmDelete(rok, wok) ==
    /\ pc = "shown"
    /\ dialog.kind = "delete"
    /\ LET curr == FromSheet(remote)
           out  == DeleteOutcome(curr, dialog.index, rok, wok)
           ev   == DialogEvents(out, rok, wok)
       IN IF out # "ok"
          THEN DialogFails("delete", out, dialog.row, "none", ev)
          ELSE DialogWrites("delete", dialog.row, "none", ev, Drop(curr, dialog.index))

----------------------------------------------------------------------------
(* The environment *)

RemoveAt(s, p) == SubSeq(s, 1, p - 1) \o SubSeq(s, p + 1, Len(s))

\* somebody else edits the spreadsheet: a row is appended or removed
ExternalEdit ==
    /\ edits < MaxEdits
    /\ edits' = edits + 1
    /\ \/ \E r \in SheetRows : Len(remote) < MaxRows /\ remote' = Append(remote, r)
       \/ \E p \in 1..Len(remote) : remote' = RemoveAt(remote, p)
    /\ extSinceFetch' = TRUE
    /\ UNCHANGED <<cache, df, pc, msg, dialog, events, lastOp, cacheStale, dfStale, writes>>
    /\ UNCHANGED browseVars

\* the 600 seconds of the cache entry pass
CacheExpire ==
    /\ cache.has
    /\ cache' = NoCache
    /\ cacheStale' = FALSE
    /\ UNCHANGED <<remote, df, pc, msg, dialog, events, lastOp, dfStale, extSinceFetch,
                   writes, edits>>
    /\ UNCHANGED browseVars

----------------------------------------------------------------------------
(* The session specification *)

Init ==
    /\ remote \in SheetTables
    /\ cache = NoCache
    /\ df = <<>>
    /\ pc = "rerun"
    /\ msg = "none"
    /\ dialog = NoDialog
    /\ events = <<>>
    /\ lastOp = Op("none", "ok", 0, NoRec, Empty)
    /\ cacheStale = FALSE
    /\ dfStale = FALSE
    /\ extSinceFetch = FALSE
    /\ writes = 0
    /\ edits = 0
    /\ table = <<>>
    /\ sel = NoSel
    /\ view = <<>>

\* the outcomes of a fetch by load_data: none is made when the value is cached
LoadOutcomes == IF cache.has THEN {TRUE} ELSE BOOLEAN

Next ==
    \/ \E lok \in LoadOutcomes : Rerun(lok)
    \/ \E lok \in LoadOutcomes : Refresh(lok)
    \/ \E in \in RegisterInputs, lok \in LoadOutcomes, wok \in BOOLEAN :
          Register(in, lok, wok)
    \/ \E lok \in LoadOutcomes : ReloadData(lok)
    \/ \E lok \in BOOLEAN : HomeReset(lok)
    \/ \E i \in DisplayedIdx(df), lok \in LoadOutcomes : OpenEdit(i, lok)
    \/ \E i \in DisplayedIdx(df), lok \in LoadOutcomes : OpenDelete(i, lok)
    \/ \E in \in EditInputs, file \in Uploads, rok, wok \in BOOLEAN :
          SubmitUpdate(in, file, rok, wok)
    \/ \E rok, wok \in BOOLEAN : ConfirmDelete(rok, wok)
    \/ ExternalEdit
    \/ CacheExpire

Spec == Init /\ [][Next]_vars

----------------------------------------------------------------------------
(* The Vocabulary Indexer *)

\* the characters str.isspace() holds for, which are the ones \s matches and
\* str.strip() removes; 12288 is the full-width space
Whitespace ==
    (9..13) \cup (28..32) \cup {133, 160, 5760} \cup (8192..8202)
        \cup {8232, 8233, 8239, 8287, 12288}

\* the characters re.split(r'[\s,、。]+', memo) splits on: whitespace, comma,
\* ideographic comma, ideographic full stop
Separators == Whitespace \cup {44, 12289, 12290}

IsSep(c) == c \in Separators

\* re.split from position i on, cur being the piece collected so far: a run of
\* separators ends the piece
RECURSIVE SplitFrom(_, _, _)
SplitFrom(text, i, cur) ==
    IF i > Len(text) THEN <<cur>>
    ELSE IF IsSep(text[i])
    THEN LET rest == {j \in (i + 1)..Len(text) : ~IsSep(text[j])}
             next == IF rest = {} THEN Len(text) + 1
                     ELSE CHOOSE j \in rest : \A k \in rest : j <= k
         IN  <<cur>> \o SplitFrom(text, next, Empty)
    ELSE SplitFrom(text, i + 1, Append(cur, text[i]))

\* re.split(r'[\s,、。]+', memo)
ReSplit(memo) == SplitFrom(memo, 1, Empty)

\* the pieces as they come, empty ones included
TokensUnfiltered(memo) == Range(ReSplit(memo))

\* [t for t in tokens if t]
Tokens(memo) == {t \in Range(ReSplit(memo)) : t # Empty}

\* unique_words: the tokens of every memo of the table
Vocabulary(d) == UNION {Tokens(d[p].memo) : p \in 1..Len(d)}

\* s < t for Python str: code point by code point, a proper prefix first
StrLess(s, t) ==
    \E i \in 1..(Len(t)) :
        /\ \A k \in 1..(i - 1) : k <= Len(s) /\ s[k] = t[k]
        /\ i - 1 <= Len(s)
        /\ (i > Len(s) \/ s[i] < t[i])

\* sorted(list(set)): the elements in ascending order
Sorted(set) ==
    CHOOSE s \in [1..Cardinality(set) -> set] :
        \A i, j \in 1..Cardinality(set) : i < j => StrLess(s[i], s[j])

\* sorted_vocab
sorted_vocab(d) == Sorted(Vocabulary(d))

----------------------------------------------------------------------------
(* The Filter Engine *)

Dot == 46

Star == 42

\* str.lower() / re.IGNORECASE on the letters A-Z
LowerChar(c) == IF c \in 65..90 THEN c + 32 ELSE c

Lower(str) == [i \in 1..Len(str) |-> LowerChar(str[i])]

\* re.compile(keyword) raises re.error for a '*' with nothing to repeat or
\* after another '*'
RegexRaises(pat) ==
    \E i \in 1..Len(pat) : pat[i] = Star /\ (i = 1 \/ pat[i - 1] = Star)

\* one pattern character against one character of the text, under re.IGNORECASE:
\* '.' is any character but a line feed
CharMatches(pch, c) == IF pch = Dot THEN c # 10 ELSE LowerChar(pch) = LowerChar(c)

\* pat[k..] matches a piece of text that starts at position i
RECURSIVE MatchHere(_, _, _, _)
MatchHere(pat, k, text, i) ==
    IF k > Len(pat) THEN TRUE
    ELSE IF k < Len(pat) /\ pat[k + 1] = Star
    THEN \/ MatchHere(pat, k + 2, text, i)
         \/ /\ i <= Len(text)
            /\ CharMatches(pat[k], text[i])
            /\ MatchHere(pat, k, text, i + 1)
    ELSE /\ i <= Len(text)
         /\ CharMatches(pat[k], text[i])
         /\ MatchHere(pat, k + 1, text, i + 1)

\* re.search(pat, text, re.IGNORECASE) finds a match
RegexSearch(pat, text) == \E i \in 1..(Len(text) + 1) : MatchHere(pat, 1, text, i)

\* Series.str.contains(keyword, case=False, na=False): regex=True is the default,
\* so the keyword is compiled as a regular expression
StrContains(memo, keyword) == ~IsNa(memo) /\ RegexSearch(keyword, memo)

\* filtered_df with the dancer filter applied whether or not a dancer is selected
FilterDancersUnguarded(d, selected) == SelectSeq(d, LAMBDA r : r.dancer \in selected)

\* filtered_df[filtered_df['dancer'].isin(selected_dancers)], when any is selected
FilterDancers(d, selected) ==
    IF selected # {} THEN SelectSeq(d, LAMBDA r : r.dancer \in selected) ELSE d

\* filtered_df[filtered_df['category'].isin(selected_disciplines)], when any is selected
FilterDisciplines(d, selected) ==
    IF selected # {} THEN SelectSeq(d, LAMBDA r : r.disc \in selected) ELSE d

\* the loop over search_keywords: one str.contains filter per keyword
RECURSIVE FilterKeywords(_, _)
FilterKeywords(d, keywords) ==
    IF keywords = <<>> THEN d
    ELSE FilterKeywords(SelectSeq(d, LAMBDA r : StrContains(r.memo, Head(keywords))),
                        Tail(keywords))

\* the loop raises when it compiles a keyword that is no regular expression
KeywordsRaise(keywords) == \E k \in 1..Len(keywords) : RegexRaises(keywords[k])

\* filtered_df
ApplyFilters(d, s) ==
    FilterKeywords(FilterDisciplines(FilterDancers(d, s.dancers), s.discs), s.keywords)

\* the options of the sidebar multiselects
AllDancers(d) == {d[p].dancer : p \in 1..Len(d)} \ {NaN}

AllDisciplines(d) == {d[p].disc : p \in 1..Len(d)} \ {NaN}

----------------------------------------------------------------------------
(* The search specification: keyword search over tables of memos *)

\* rows of a table
MaxSearchRows == 2

\* characters of a memo
MaxMemoLen == 2

\* selected keywords
MaxKeywords == 2

SearchAlphabet == {97, 65, Dot, Star, 32}

SearchMemos == UNION {[1..n -> SearchAlphabet] : n \in 0..MaxMemoLen}

MemoRow(memo) ==
    [dancer |-> sA, disc |-> dW, platform |-> sS, img |-> sU, video |-> sV,
     memo |-> memo]

SearchTables ==
    UNION {[1..n -> {MemoRow(m) : m \in SearchMemos}] : n \in 0..MaxSearchRows}

\* the lists a multiselect over the options can hold: no option twice
Selections(options, max) ==
    UNION {{k \in [1..n -> options] : \A i, j \in 1..n : i # j => k[i] # k[j]} :
           n \in 0..max}

NoView == [mode |-> "none", crashed |-> FALSE, filtered |-> <<>>, buckets |-> <<>>,
           sorted |-> <<>>, out |-> <<>>, cards |-> <<>>]

SessionIdle ==
    /\ remote = <<>>
    /\ cache = NoCache
    /\ df = <<>>
    /\ pc = "rerun"
    /\ msg = "none"
    /\ dialog = NoDialog
    /\ events = <<>>
    /\ lastOp = Op("none", "ok", 0, NoRec, Empty)
    /\ cacheStale = FALSE
    /\ dfStale = FALSE
    /\ extSinceFetch = FALSE
    /\ writes = 0
    /\ edits = 0

InitSearch ==
    /\ SessionIdle
    /\ \E t \in SearchTables : table = Normalize(FromSheet(t))
    /\ sel = NoSel
    /\ view = NoView

\* the user picks keywords in the Search multiselect: the script reruns and
\* filters, or ends with the exception of the keyword loop
Search(keywords) ==
    /\ sel' = [NoSel EXCEPT !.keywords = keywords]
    /\ view' = IF KeywordsRaise(keywords)
               THEN [NoView EXCEPT !.mode = "filter", !.crashed = TRUE]
               ELSE [NoView EXCEPT !.mode = "filter",
                                   !.filtered = ApplyFilters(table, sel')]
    /\ UNCHANGED <<table, sessionVars>>

NextSearch ==
    \E keywords \in Selections(Vocabulary(table), MaxKeywords) : Search(keywords)

SpecSearch == InitSearch /\ [][NextSearch]_vars

\* the memo contains the keyword as a substring, letter case ignored
ContainsIgnoreCase(memo, keyword) ==
    \E i \in 1..(Len(memo) + 1) :
        /\ i + Len(keyword) - 1 <= Len(memo)
        /\ Lower(SubSeq(memo, i, i + Len(keyword) - 1)) = Lower(keyword)

\* C7: for every table and every list of keywords of its vocabulary, the
\* filtered view is exactly the rows whose memo contains every keyword as a
\* case-insensitive literal substring (so a row with an empty memo matches no
\* keyword), whatever characters the keywords hold.
C7_KeywordsLiteral ==
    view.mode = "filter"
       => /\ ~view.crashed
          /\ view.filtered =
                SelectSeq(table, LAMBDA r :
                    \A k \in 1..Len(sel.keywords) :
                        ContainsIgnoreCase(r.memo, sel.keywords[k]))

----------------------------------------------------------------------------
(* The Sort & Grouping Engine *)

\* str.strip()
Strip(str) ==
    LET inked == {i \in 1..Len(str) : str[i] \notin Whitespace}
    IN  IF inked = {} THEN Empty
        ELSE SubSeq(str, CHOOSE i \in inked : \A j \in inked : i <= j,
                         CHOOSE i \in inked : \A j \in inked : j <= i)

\* unicodedata.normalize('NFKC', ...): full-width forms fold to ASCII, the
\* ideographic space to a space
NfkcChar(c) == IF c \in 65281..65374 THEN c - 65248 ELSE IF c = 12288 THEN 32 ELSE c

Nfkc(str) == [i \in 1..Len(str) |-> NfkcChar(str[i])]

\* str(text): a missing value prints as 'nan'
Str(text) == IF IsNa(text) THEN <<110, 97, 110>> ELSE text

\* the 'kana' reading kakasi gives a kana string: hiragana become katakana
KanaChar(c) == IF c \in 12353..12438 THEN c + 96 ELSE c

get_yomi(text) == [i \in 1..Len(text) |-> KanaChar(text[i])]

get_yomi_normalized(text) ==
    IF text = Empty THEN Empty
    ELSE LET normalized == Strip(Nfkc(Str(text)))
         IN  IF normalized = Empty THEN Empty
             ELSE IF LowerChar(normalized[1]) \in 97..122 THEN Lower(normalized)
             ELSE get_yomi(normalized)

\* the yomi_key column
YomiKey(r) == get_yomi_normalized(r.dancer)

\* the performer column
DancerKey(r) == r.dancer

\* the value of row r in the column sort_values sorts by
KeyOf(by, r) == IF by = "yomi_key" THEN YomiKey(r) ELSE DancerKey(r)

Perms(n) == {f \in [1..n -> 1..n] : \A i, j \in 1..n : i # j => f[i] # f[j]}

\* the orders sort_values(by=[key]) may leave the rows in. Its default kind is
\* 'quicksort', which is not a stable sort: keys ascend, rows with a missing key
\* come last in their original order, and rows with equal keys come in any order
SortPerms(d, by) ==
    {f \in Perms(Len(d)) :
        \A i, j \in 1..Len(d) : i < j =>
            LET a == KeyOf(by, d[f[i]])
                b == KeyOf(by, d[f[j]])
            IN  /\ IsNa(a) => IsNa(b) /\ f[i] < f[j]
                /\ ~IsNa(a) /\ ~IsNa(b) => ~StrLess(b, a)}

SortValues(d, by) == {[i \in 1..Len(d) |-> d[f[i]]] : f \in SortPerms(d, by)}

dV == <<86>>

Targets == <<dW, dT, <<70>>, <<81>>, dV, <<79, 116, 104, 101, 114>>>>

BucketNames == {Targets[t] : t \in 1..5}

\* the Other bucket decided on the trimmed, upper-cased category
SubDfTrimmed(fd, target) ==
    IF target = Targets[6]
    THEN SelectSeq(fd, LAMBDA r :
            IsNa(r.disc) \/
            [i \in 1..Len(Strip(r.disc)) |->
                IF Strip(r.disc)[i] \in 97..122 THEN Strip(r.disc)[i] - 32
                ELSE Strip(r.disc)[i]] \notin BucketNames)
    ELSE SelectSeq(fd, LAMBDA r : r.disc = target)

\* sub_df of one target of the By Dance view
SubDf(fd, target) ==
    IF target = Targets[6]
    THEN SelectSeq(fd, LAMBDA r : r.disc \notin BucketNames)
    ELSE SelectSeq(fd, LAMBDA r : r.disc = target)

\* cards that carry the position of the row in the frame that is rendered
GridByPosition(d) == [p \in 1..Len(d) |-> [idx |-> p - 1, row |-> d[p]]]

\* render_video_grid: one card per row, in row order, each with the index its
\* edit and delete buttons pass on (the column _original_index, or row.name)
Grid(d) == [p \in 1..Len(d) |-> [idx |-> d[p].idx, row |-> d[p]]]

\* Series.unique(): the values in order of first appearance
RECURSIVE UniqueFrom(_, _, _)
UniqueFrom(s, k, acc) ==
    IF k > Len(s) THEN acc
    ELSE UniqueFrom(s, k + 1,
                    IF \E j \in 1..Len(acc) : acc[j] = s[k] THEN acc ELSE Append(acc, s[k]))

Unique(s) == UniqueFrom(s, 1, <<>>)

\* str.isalpha() on one character: Latin letters, full-width Latin letters,
\* kana and CJK ideographs
IsAlpha(c) ==
    \/ c >= 65 /\ c <= 90
    \/ c >= 97 /\ c <= 122
    \/ c >= 65313 /\ c <= 65338
    \/ c >= 65345 /\ c <= 65370
    \/ c >= 12353 /\ c <= 12438
    \/ c >= 12449 /\ c <= 12538
    \/ c >= 19968 /\ c <= 40959

\* str.upper() on one character
UpperChar(c) ==
    IF (c >= 97 /\ c <= 122) \/ (c >= 65345 /\ c <= 65370) THEN c - 32 ELSE c

\* the Latin letter of a vowel kana
RomajiChar(c) ==
    CASE c \in {12354, 12450} -> 97
      [] c \in {12356, 12452} -> 105
      [] c \in {12358, 12454} -> 117
      [] c \in {12360, 12456} -> 101
      [] c \in {12362, 12458} -> 111
      [] OTHER -> c

\* kks.getConverter() is given no mode: conv.do either romanizes kana or hands
\* the text back unchanged, as the installed pykakasi does
ConvModes == {"romaji", "unchanged"}

\* conv.do(dancer), for names of ASCII characters and vowel kana
ConvDo(conv, text) ==
    IF conv = "romaji" THEN [i \in 1..Len(text) |-> RomajiChar(text[i])] ELSE text

\* the variable romaji before its first assignment
Unbound == <<-1>>

\* initial: "?" for no romaji, else its first character in upper case; "#" when
\* that is no letter
InitialOf(romaji) ==
    IF romaji = Empty THEN <<35>>
    ELSE IF IsAlpha(UpperChar(romaji[1])) THEN <<UpperChar(romaji[1])>>
    ELSE <<35>>

\* dancer_groups[initial].append(dancer)
AddToGroup(groups, initial, dancer) ==
    IF \E g \in 1..Len(groups) : groups[g].initial = initial
    THEN [g \in 1..Len(groups) |->
            IF groups[g].initial = initial
            THEN [groups[g] EXCEPT !.dancers = Append(@, dancer)]
            ELSE groups[g]]
    ELSE Append(groups, [initial |-> initial, dancers |-> <<dancer>>])

\* the loop over dancers: romaji is assigned only for a non-empty str, and is
\* read for every dancer
RECURSIVE GroupLoop(_, _, _, _, _)
GroupLoop(dancers, k, romaji, groups, conv) ==
    IF k > Len(dancers) THEN [crashed |-> FALSE, groups |-> groups]
    ELSE LET r == IF IsNa(dancers[k]) \/ dancers[k] = Empty THEN romaji
                  ELSE ConvDo(conv, dancers[k])
         IN  IF r = Unbound THEN [crashed |-> TRUE, groups |-> <<>>]
             ELSE GroupLoop(dancers, k + 1, r,
                            AddToGroup(groups, InitialOf(r), dancers[k]), conv)

\* dancer_groups of the frame sorted by yomi_key
GroupDancers(sorted, conv) ==
    GroupLoop(Unique([p \in 1..Len(sorted) |-> sorted[p].dancer]), 1, Unbound, <<>>, conv)

\* sorted_initials: ascending, '#' last
SortedInitials(groups) ==
    LET keys == {groups[g].initial : g \in 1..Len(groups)}
    IN  Sorted(keys \ {<<35>>}) \o (IF <<35>> \in keys THEN <<<<35>>>> ELSE <<>>)

\* the groups in the order of sorted_initials
AlphabetIndex(groups) ==
    LET initials == SortedInitials(groups)
    IN  [i \in 1..Len(groups) |->
            groups[CHOOSE g \in 1..Len(groups) : groups[g].initial = initials[i]]]

\* filtered_df[filtered_df['ダンサー'] == dancer]: a missing value equals nothing
RowsOfDancer(fd, dancer) == SelectSeq(fd, LAMBDA r : ~IsNa(dancer) /\ r.dancer = dancer)

RECURSIVE Flatten(_)
Flatten(ss) == IF ss = <<>> THEN <<>> ELSE Head(ss) \o Flatten(Tail(ss))

\* the cards of the expanders, in the order they are rendered
DancerCards(fd, index) ==
    Flatten([i \in 1..Len(index) |->
        Flatten([k \in 1..Len(index[i].dancers) |->
            Grid(RowsOfDancer(fd, index[i].dancers[k]))])])

\* df_latest
Reverse(d) == [i \in 1..Len(d) |-> d[Len(d) + 1 - i]]

----------------------------------------------------------------------------
(* The browse specification: facet filters and view modes over small tables *)

\* rows of a table
MaxBrowseRows == 2

BrowseDancers == {sA, <<65>>, NaN}

BrowseDiscs == {dW, dV, <<32, 87>>, <<119>>, NaN}

BrowseRow(dancer, disc) ==
    [dancer |-> dancer, disc |-> disc, platform |-> sS, img |-> sU, video |-> sV,
     memo |-> Empty]

BrowseTables ==
    UNION {[1..n -> {BrowseRow(a, c) : a \in BrowseDancers, c \in BrowseDiscs}] :
           n \in 1..MaxBrowseRows}

ViewModes == {"Latest", "By Dancer", "By Dance"}

\* what a script run renders for a view mode and the sidebar selections: one
\* view per order the sorts may produce and per behaviour of the converter
RenderOn(d, mode, s) ==
    LET fd == ApplyFilters(d, s)
    IN  IF mode = "Latest"
        THEN {[NoView EXCEPT !.mode = mode, !.filtered = fd, !.sorted = Reverse(fd),
                             !.cards = Grid(Reverse(fd))]}
        ELSE IF mode = "By Dancer"
        THEN {LET g     == GroupDancers(sorted, conv)
                  index == AlphabetIndex(g.groups)
              IN  [NoView EXCEPT !.mode = mode, !.filtered = fd, !.sorted = sorted,
                                 !.crashed = g.crashed,
                                 !.out = index,
                                 !.cards = IF g.crashed THEN <<>>
                                           ELSE DancerCards(fd, index)] :
                sorted \in SortValues(fd, "yomi_key"), conv \in ConvModes}
        ELSE {[NoView EXCEPT !.mode = mode, !.filtered = fd,
                             !.buckets = <<b1, b2, b3, b4, b5, b6>>,
                             !.cards = Grid(b1 \o b2 \o b3 \o b4 \o b5 \o b6)] :
                b1 \in SortValues(SubDf(fd, Targets[1]), "dancer"),
                b2 \in SortValues(SubDf(fd, Targets[2]), "dancer"),
                b3 \in SortValues(SubDf(fd, Targets[3]), "dancer"),
                b4 \in SortValues(SubDf(fd, Targets[4]), "dancer"),
                b5 \in SortValues(SubDf(fd, Targets[5]), "dancer"),
                b6 \in SortValues(SubDf(fd, Targets[6]), "dancer")}

Render(mode, s) == RenderOn(table, mode, s)

\* the script run a widget change triggers
ScriptRun(mode, s) ==
    /\ sel' = s
    /\ view' \in Render(mode, s)
    /\ UNCHANGED <<table, sessionVars>>

Toggle(set, x) == IF x \in set THEN set \ {x} ELSE set \cup {x}

\* the first script run: the radio is on Latest, nothing is selected
InitBrowse ==
    /\ SessionIdle
    /\ \E t \in BrowseTables : table = Normalize(FromSheet(t))
    /\ sel = NoSel
    /\ view \in Render("Latest", NoSel)

\* the user adds a dancer to the Dancer multiselect or removes one
SelectDancer(x) == ScriptRun(view.mode, [sel EXCEPT !.dancers = Toggle(@, x)])

\* the user adds a category to the Dance multiselect or removes one
SelectDiscipline(x) == ScriptRun(view.mode, [sel EXCEPT !.discs = Toggle(@, x)])

\* the user picks a view mode on the radio
SetViewMode(mode) == ScriptRun(mode, sel)

NextBrowse ==
    \/ \E x \in AllDancers(table) : SelectDancer(x)
    \/ \E x \in AllDisciplines(table) : SelectDiscipline(x)
    \/ \E mode \in ViewModes : SetViewMode(mode)

SpecBrowse == InitBrowse /\ [][NextBrowse]_vars

\* C8: the filtered view is the subsequence of the table, in table order, of
\* the rows whose performer is among the selected performers (if any is
\* selected) and whose category is among the selected categories (if any is
\* selected); with nothing selected it is the table itself.
C8_FacetFilters ==
    view.mode \in ViewModes
       => /\ view.filtered =
                SelectSeq(table, LAMBDA r :
                    /\ sel.dancers = {} \/ r.dancer \in sel.dancers
                    /\ sel.discs = {} \/ r.disc \in sel.discs)
          /\ sel.dancers = {} /\ sel.discs = {} => view.filtered = table

\* a performer is selected, no category is, and the filter keeps the second
\* row of the table but not the first
C8_Witness ==
    /\ view.mode = "By Dancer"
    /\ sel.dancers # {}
    /\ sel.discs = {}
    /\ Len(table) = 2
    /\ view.filtered = <<table[2]>>

\* the grids of the By Dance view a row label is rendered in
CardsOf(label) ==
    {tq \in (1..Len(view.buckets)) \X (1..MaxBrowseRows + 1) :
        /\ tq[2] <= Len(view.buckets[tq[1]])
        /\ view.buckets[tq[1]][tq[2]].idx = label}

\* C9: in the By Dance view every row of the filtered view is rendered in
\* exactly one of the six grids W, T, F, Q, V, Other, exactly once, and the
\* grids render nothing else, whatever the category of the row (missing, not a
\* bucket name, or a bucket name in another letter case or with spaces).
C9_BucketsPartition ==
    view.mode = "By Dance"
       => /\ Len(view.buckets) = 6
          /\ \A p \in 1..Len(view.filtered) :
                Cardinality(CardsOf(view.filtered[p].idx)) = 1
          /\ \A t \in 1..6 : \A q \in 1..Len(view.buckets[t]) :
                \E p \in 1..Len(view.filtered) : view.buckets[t][q] = view.filtered[p]

\* a By Dance view of a row without category and a row whose category is
\* " W" or "w"
C9_Witness ==
    /\ view.mode = "By Dance"
    /\ \E p \in 1..Len(view.filtered) : IsNa(view.filtered[p].disc)
    /\ \E p \in 1..Len(view.filtered) : view.filtered[p].disc \in {<<32, 87>>, <<119>>}
    /\ Len(view.buckets[6]) = 2

\* the one order of the rows that has keys ascending, rows without key last
\* and rows with equal keys in their original order
StableSort(d, by) ==
    LET f == CHOOSE g \in SortPerms(d, by) :
                \A i, j \in 1..Len(d) :
                    i < j /\ KeyOf(by, d[g[i]]) = KeyOf(by, d[g[j]]) => g[i] < g[j]
    IN  [i \in 1..Len(d) |-> d[f[i]]]

\* C10: the By Dancer order is the stable order of the filtered view by sort
\* key (rows with equal keys in table order), sorting it again gives the same
\* order, and each grid of the By Dance view is in the stable order of its
\* rows by performer name.
C10_SortStable ==
    /\ view.mode = "By Dancer"
          => /\ view.sorted = StableSort(view.filtered, "yomi_key")
             /\ SortValues(view.sorted, "yomi_key") = {view.sorted}
    /\ view.mode = "By Dance"
          => \A t \in 1..6 :
                view.buckets[t] = StableSort(SubDf(view.filtered, Targets[t]), "dancer")

----------------------------------------------------------------------------
(* The index specification: the By Dancer view over names of several scripts *)

\* rows of a table
MaxIndexRows == 3

\* a, b, a name that starts with a digit, a missing name, and the hiragana i
\* and the katakana a
IndexDancers == {sA, sB, <<49, 120>>, NaN, <<12356>>, <<12450>>}

IndexTables ==
    UNION {[1..n -> {BrowseRow(a, dW) : a \in IndexDancers}] : n \in 1..MaxIndexRows}

InitIndex ==
    /\ SessionIdle
    /\ \E t \in IndexTables : table = Normalize(FromSheet(t))
    /\ sel = NoSel
    /\ view \in Render("Latest", NoSel)

SpecIndex == InitIndex /\ [][NextBrowse]_vars

\* the performers of the filtered view
Performers == {view.filtered[p].dancer : p \in 1..Len(view.filtered)}

\* the places of the index a performer is listed at
PlacesOf(dancer) ==
    {ik \in (1..Len(view.out)) \X (1..MaxIndexRows + 1) :
        /\ ik[2] <= Len(view.out[ik[1]].dancers)
        /\ view.out[ik[1]].dancers[ik[2]] = dancer}

\* the bucket of a performer by its own name, when conv.do behaves as conv
OwnInitial(conv, dancer) ==
    IF IsNa(dancer) \/ dancer = Empty THEN <<35>> ELSE InitialOf(ConvDo(conv, dancer))

\* C18: in the By Dancer view every performer of the filtered view is listed
\* in exactly one bucket of the index, the bucket of each performer is the
\* upper-case first letter of its own romanized name, or '#' when that is no
\* letter or the name is empty or missing, whichever performer came before it,
\* and the buckets are in ascending order with '#' last.
C18_IndexBuckets ==
    view.mode = "By Dancer"
       => /\ ~view.crashed
          /\ \A d \in Performers : Cardinality(PlacesOf(d)) = 1
          /\ \E conv \in ConvModes :
                \A i \in 1..Len(view.out) : \A k \in 1..Len(view.out[i].dancers) :
                    view.out[i].initial = OwnInitial(conv, view.out[i].dancers[k])
          /\ \A i, j \in 1..Len(view.out) :
                i < j => /\ view.out[i].initial # <<35>>
                         /\ \/ view.out[j].initial = <<35>>
                            \/ StrLess(view.out[i].initial, view.out[j].initial)

\* the performers in the order their expanders are rendered
Presented == Flatten([i \in 1..Len(view.out) |-> view.out[i].dancers])

\* a name whose first character is a Latin letter
StartsLatin(dancer) ==
    /\ ~IsNa(dancer)
    /\ Strip(Nfkc(dancer)) # Empty
    /\ LowerChar(Strip(Nfkc(dancer))[1]) \in 97..122

\* C19: in the By Dancer view every performer whose name starts with a Latin
\* letter is presented before every performer whose name starts with another
\* character, and the performers are presented in ascending order of the sort
\* key (the lower-case name for a Latin name, the reading otherwise).
C19_LatinFirstKeyOrder ==
    view.mode = "By Dancer" /\ ~view.crashed
       => \A p, q \in 1..Len(Presented) :
            /\ StartsLatin(Presented[p]) /\ ~IsNa(Presented[q]) /\ ~StartsLatin(Presented[q])
                  => p < q
            /\ p < q => ~StrLess(get_yomi_normalized(Presented[q]),
                                 get_yomi_normalized(Presented[p]))

----------------------------------------------------------------------------
(* The cards specification: one user, the buttons of the cards, the dialogs *)

\* rows of the sheet
MaxCardRows == 2

CardDancers == {sA, sB, Empty}

CardDiscs == {dW, Empty}

\* the sheet, before it is read
CardSheets ==
    UNION {[1..n -> {[BrowseRow(a, c) EXCEPT !.platform = YouTube] :
                        a \in CardDancers, c \in CardDiscs}] : n \in 1..MaxCardRows}

\* what the form of the edit dialog can submit
CardInputs == {[dancer |-> a, disc |-> dW, img |-> sU, video |-> sV, memo |-> Empty] :
                  a \in {sB, Empty}}

\* the script stopped at the df.empty check
Stopped == [NoView EXCEPT !.mode = "stopped"]

\* the session has loaded the sheet, Edit Mode is on, nobody else writes
InitCards ==
    /\ \E t \in CardSheets : remote = t
    /\ table = Normalize(FromSheet(remote))
    /\ sel = NoSel
    /\ view \in Render("Latest", NoSel)
    /\ cache = NoCache
    /\ df = <<>>
    /\ pc = "rerun"
    /\ msg = "none"
    /\ dialog = NoDialog
    /\ events = <<>>
    /\ lastOp = Op("none", "ok", 0, NoRec, Empty)
    /\ cacheStale = FALSE
    /\ dfStale = FALSE
    /\ extSinceFetch = FALSE
    /\ writes = 0
    /\ edits = 0

cardsIdle == <<cache, df, pc, msg, events, cacheStale, dfStale, extSinceFetch, writes, edits>>

\* a button of the k-th card: the run that handles the click renders the view
\* again and opens the dialog with original_idx and the row of the card whose
\* button has the key of the click
Click(kind, k) ==
    /\ dialog.kind = "none"
    /\ view.mode \in ViewModes
    /\ k \in 1..Len(view.cards)
    /\ dialog' = [kind |-> kind, index |-> view.cards[k].idx,
                  row |-> RowRec(view.cards[k].row)]
    /\ view' \in Render(view.mode, sel)
    /\ UNCHANGED <<table, sel, remote, lastOp, cardsIdle>>

ClickEdit(k) == Click("edit", k)

ClickDelete(k) == Click("delete", k)

\* the dialog is dismissed: no script run
CloseDialog ==
    /\ dialog.kind # "none"
    /\ dialog' = NoDialog
    /\ UNCHANGED <<table, sel, view, remote, lastOp, cardsIdle>>

\* what a keyed multiselect holds after a run: its value as long as the
\* options are the same; when the options changed, any of them
Reselect(old, options, optionsBefore) ==
    IF options = optionsBefore THEN {old} ELSE SUBSET options

\* conn.update, st.cache_data.clear(), st.rerun(): the next run loads the
\* sheet that was written and renders the view mode of the radio
WriteAndRerun(t) ==
    /\ remote' = ToSheet(t)
    /\ table' = Normalize(FromSheet(ToSheet(t)))
    /\ dialog' = NoDialog
    /\ IF IsEmptyFrame(FromSheet(ToSheet(t)))
       THEN sel' = NoSel /\ view' = Stopped
       ELSE /\ \E a \in Reselect(sel.dancers, AllDancers(table'), AllDancers(table)) :
               \E c \in Reselect(sel.discs, AllDisciplines(table'), AllDisciplines(table)) :
                  sel' = [sel EXCEPT !.dancers = a, !.discs = c]
            /\ view' \in RenderOn(table', view.mode, sel')

\* st.error in the dialog: nothing is written, the dialog stays open
DialogError ==
    UNCHANGED <<table, sel, view, remote, dialog>>

\* the submit button of edit_video_dialog, no file chosen
SubmitEdit(in, rok, wok) ==
    /\ dialog.kind = "edit"
    /\ lastOp' = Op("update", UpdateOutcome("none", rok, wok), dialog.index, in, Empty)
    /\ IF UpdateOutcome("none", rok, wok) = "ok"
       THEN WriteAndRerun(UpdateTable(FromSheet(remote), dialog.index, in, "none"))
       ELSE DialogError
    /\ UNCHANGED cardsIdle

\* the confirm button of delete_video_dialog
ConfirmDel(rok, wok) ==
    /\ dialog.kind = "delete"
    /\ lastOp' = Op("delete", DeleteOutcome(FromSheet(remote), dialog.index, rok, wok),
                    dialog.index, dialog.row, Empty)
    /\ IF DeleteOutcome(FromSheet(remote), dialog.index, rok, wok) = "ok"
       THEN WriteAndRerun(Drop(FromSheet(remote), dialog.index))
       ELSE DialogError
    /\ UNCHANGED cardsIdle

NextCards ==
    \/ dialog.kind = "none" /\ view.mode \in ViewModes /\ NextBrowse
    \/ \E k \in 1..MaxCardRows + 1 : ClickEdit(k)
    \/ \E k \in 1..MaxCardRows + 1 : ClickDelete(k)
    \/ CloseDialog
    \/ \E in \in CardInputs : \E rok, wok \in BOOLEAN : SubmitEdit(in, rok, wok)
    \/ \E rok, wok \in BOOLEAN : ConfirmDel(rok, wok)

SpecCards == InitCards /\ [][NextCards]_vars

\* every card carries the offset its row has in the loaded table
CardsPositional ==
    \A k \in 1..Len(view.cards) :
        /\ view.cards[k].idx \in 0..(Len(table) - 1)
        /\ table[view.cards[k].idx + 1] = view.cards[k].row

\* the button of a card opens the dialog with the index and the row of that card
OpensOnCard ==
    dialog.kind = "none" /\ dialog'.kind # "none"
       => \E k \in 1..Len(view.cards) :
            /\ dialog'.index = view.cards[k].idx
            /\ dialog'.row = RowRec(view.cards[k].row)
            /\ RowRec(table[dialog'.index + 1]) = dialog'.row

\* a write of a dialog changes the sheet at the row of the dialog and nowhere else
WritesShownRow ==
    remote' # remote
       => /\ dialog.kind # "none"
          /\ dialog.index + 1 \in 1..Len(remote)
          /\ RowRec(table[dialog.index + 1]) = dialog.row
          /\ table = Normalize(FromSheet(remote))
          /\ dialog.kind = "delete" => remote' = RemoveAt(remote, dialog.index + 1)
          /\ dialog.kind = "edit"
                => /\ Len(remote') = Len(remote)
                   /\ \A p \in 1..Len(remote) : p # dialog.index + 1 => remote'[p] = remote[p]
                   /\ RowRec(remote'[dialog.index + 1]) = lastOp'.rec

\* C20: in the Latest, By Dancer and By Dance views, under every selection of
\* the filters, the index a card passes to edit_video_dialog or
\* delete_video_dialog is the offset of the card's row in the loaded table, and
\* with no other writer the update or delete changes the sheet at exactly the
\* row shown on the card.
C20_PositionalIdentity ==
    [][CardsPositional /\ CardsPositional' /\ OpensOnCard /\ WritesShownRow]_vars

\* a row that is shown first in its view but is the second row of the table
\* has been edited through its card while a filter was selected
C20_Witness ==
    /\ lastOp.kind = "update"
    /\ lastOp.outcome = "ok"
    /\ lastOp.index = 1
    /\ Len(table) = 2
    /\ RowRec(table[2]) = [lastOp.rec EXCEPT !.dancer = ReadCell(@)]
    /\ table[1].dancer = sA

----------------------------------------------------------------------------
(* The resolver specification: get_thumbnail_url over video URLs *)

Schemes == {Empty, <<104, 116, 116, 112, 115, 58, 47, 47>>, <<104, 116, 116, 112, 58, 47, 47>>}

\* host and path of the URL shapes that carry an identifier, up to the identifier
IdBases ==
    {<<119, 119, 119, 46, 121, 111, 117, 116, 117, 98, 101, 46, 99, 111, 109, 47, 119, 97, 116, 99, 104, 63, 118, 61>>,
     <<121, 111, 117, 116, 117, 98, 101, 46, 99, 111, 109, 47, 119, 97, 116, 99, 104, 63, 118, 61>>,
     <<119, 119, 119, 46, 121, 111, 117, 116, 117, 98, 101, 46, 99, 111, 109, 47, 119, 97, 116, 99, 104, 63, 102, 101, 97, 116, 117, 114, 101, 61, 115, 104, 97, 114, 101, 38, 118, 61>>,
     <<121, 111, 117, 116, 117, 46, 98, 101, 47>>,
     <<119, 119, 119, 46, 121, 111, 117, 116, 117, 98, 101, 46, 99, 111, 109, 47, 101, 109, 98, 101, 100, 47>>,
     <<119, 119, 119, 46, 121, 111, 117, 116, 117, 98, 101, 46, 99, 111, 109, 47, 115, 104, 111, 114, 116, 115, 47>>,
     <<109, 46, 121, 111, 117, 116, 117, 98, 101, 46, 99, 111, 109, 47, 119, 97, 116, 99, 104, 63, 118, 61>>}

VideoIds == {<<100, 81, 119, 52, 119, 57, 87, 103, 88, 99, 81>>, <<45, 95, 48, 97, 90, 45, 95, 48, 97, 90, 49>>, <<48, 48, 48, 48, 48, 48, 48, 48, 48, 48, 48>>}

\* what follows the identifier
Tails == {Empty, <<38, 116, 61, 52, 50, 115>>, <<63, 115, 105, 61, 65, 98, 67, 100, 69, 102, 71, 104, 73, 106, 75, 108, 77, 110, 79, 112>>}

\* the inputs with an identifier, each with the identifier it carries
IdInputs ==
    {[url |-> s \o b \o id \o t, id |-> id] :
        s \in Schemes, b \in IdBases, id \in VideoIds, t \in Tails}

\* URLs on other hosts or with other paths, and the empty URL
OtherUrls ==
    {Empty,
     <<104, 116, 116, 112, 115, 58, 47, 47, 101, 120, 97, 109, 112, 108, 101, 46, 99, 111, 109, 47, 110, 111, 45, 105, 100, 45, 104, 101, 114, 101>>,
     <<104, 116, 116, 112, 115, 58, 47, 47, 101, 120, 97, 109, 112, 108, 101, 46, 99, 111, 109, 47, 115, 111, 109, 101, 45, 108, 111, 110, 103, 45, 112, 97, 116, 104>>,
     <<104, 116, 116, 112, 115, 58, 47, 47, 118, 105, 109, 101, 111, 46, 99, 111, 109, 47, 49, 50, 51, 52, 53, 54, 55, 56, 57>>,
     <<104, 116, 116, 112, 115, 58, 47, 47, 118, 105, 109, 101, 111, 46, 99, 111, 109, 47, 49, 50, 51, 52, 53, 54, 55, 56, 57, 48, 49>>,
     <<104, 116, 116, 112, 115, 58, 47, 47, 119, 119, 119, 46, 121, 111, 117, 116, 117, 98, 101, 46, 99, 111, 109, 47>>,
     <<104, 116, 116, 112, 115, 58, 47, 47, 119, 119, 119, 46, 121, 111, 117, 116, 117, 98, 101, 46, 99, 111, 109, 47, 112, 108, 97, 121, 108, 105, 115, 116, 63, 108, 105, 115, 116, 61, 80, 76, 97, 98, 99, 100, 101, 102, 103, 104, 105, 106, 107, 108, 109, 110, 111, 112>>,
     <<104, 116, 116, 112, 115, 58, 47, 47, 119, 119, 119, 46, 121, 111, 117, 116, 117, 98, 101, 46, 99, 111, 109, 47, 99, 104, 97, 110, 110, 101, 108, 47, 85, 67, 97, 98, 99, 100, 101, 102, 103, 104, 105, 106, 107, 108, 109, 110, 111, 112, 113, 114, 115, 116, 117, 118>>,
     <<104, 116, 116, 112, 115, 58, 47, 47, 119, 119, 119, 46, 105, 110, 115, 116, 97, 103, 114, 97, 109, 46, 99, 111, 109, 47, 114, 101, 101, 108, 47, 67, 97, 98, 99, 100, 101, 102, 103, 104, 105, 74, 47>>,
     <<104, 116, 116, 112, 115, 58, 47, 47, 98, 97, 108, 108, 114, 111, 111, 109, 45, 118, 105, 100, 101, 111, 115, 46, 101, 120, 97, 109, 112, 108, 101, 47, 119>>,
     <<104, 116, 116, 112, 115, 58, 47, 47, 119, 119, 119, 46, 100, 97, 105, 108, 121, 109, 111, 116, 105, 111, 110, 46, 99, 111, 109, 47, 118, 105, 100, 101, 111, 47, 120, 56, 97, 98, 99, 100, 101>>,
     <<110, 111, 116, 32, 97, 32, 117, 114, 108>>}

ThumbInputs == IdInputs \cup {[url |-> u, id |-> Empty] : u \in OtherUrls}

InitThumb ==
    /\ SessionIdle
    /\ table = <<>>
    /\ sel \in ThumbInputs
    /\ view = NoView

\* the resolver is applied to the URL
Resolve ==
    /\ view.mode = "none"
    /\ view' = [NoView EXCEPT !.mode = "thumbnail", !.out = get_thumbnail_url(sel.url)]
    /\ UNCHANGED <<table, sel, sessionVars>>

\* another URL is entered
EnterUrl(in) ==
    /\ view.mode = "thumbnail"
    /\ sel' = in
    /\ view' = NoView
    /\ UNCHANGED <<table, sessionVars>>

NextThumb ==
    \/ Resolve
    \/ \E in \in ThumbInputs : EnterUrl(in)

SpecThumb == InitThumb /\ [][NextThumb]_vars

\* C11: for every URL of a recognized shape (watch?v=ID, watch?..&v=ID,
\* youtu.be/ID, /embed/ID, /shorts/ID, m.youtube.com/watch?v=ID) with an
\* 11-character identifier, with or without scheme and trailing parameters,
\* the resolver returns the thumbnail template filled with exactly that
\* identifier; it returns a string for every input.
C11_ThumbnailOfId ==
    view.mode = "thumbnail"
       => /\ DOMAIN view.out = 1..Len(view.out)
          /\ sel.id # Empty =>
                view.out = <<104, 116, 116, 112, 115, 58, 47, 47, 105, 109, 103, 46, 121, 111, 117, 116, 117, 98, 101, 46, 99, 111, 109, 47, 118, 105, 47>> \o sel.id \o <<47, 104, 113, 100, 101, 102, 97, 117, 108, 116, 46, 106, 112, 103>>

\* the resolver has answered for a watch URL whose v is not the first parameter
C11_Witness ==
    /\ view.mode = "thumbnail"
    /\ sel.url = <<104, 116, 116, 112, 115, 58, 47, 47, 119, 119, 119, 46, 121, 111, 117, 116, 117, 98, 101, 46, 99, 111, 109, 47, 119, 97, 116, 99, 104, 63, 102, 101, 97, 116, 117, 114, 101, 61, 115, 104, 97, 114, 101, 38, 118, 61, 45, 95, 48, 97, 90, 45, 95, 48, 97, 90, 49, 38, 116, 61, 52, 50, 115>>
    /\ view.out # Empty

\* C12: for the empty URL and for every URL on another host or with another
\* path, the resolver returns the empty string, however long the host labels
\* and path segments of the URL are.
C12_NoIdNoThumbnail ==
    view.mode = "thumbnail" /\ sel.id = Empty => view.out = Empty

----------------------------------------------------------------------------
(* Schema normalization: the column headers of the loaded table *)

\* A loaded table is its headers, in column order, and its number of rows.
\* Headers are "dancer" (ダンサー), "category" (種目), "image_url" (画像URL),
\* "video_url" (動画URL), "memo" (メモ), "platform" and others; padded says the
\* headers of the sheet carry surrounding spaces.  A column of a frame is
\* [name, src]: its header and the position of the sheet column its values come
\* from, 0 for a column filled with a default.

\* columns of a sheet
MaxCols == 6

\* rows of a sheet
MaxSchemaRows == 1

required_cols == <<"dancer", "category", "image_url", "video_url">>

HeaderNames == {"dancer", "category", "image_url", "video_url", "memo", "platform", "site"}

\* conn.read: one column per header
ReadCols(t) ==
    [p \in 1..Len(t.headers) |->
        [name |-> t.headers[p], padded |-> t.padded, src |-> p]]

\* df.columns.str.strip()
StripCols(cols) == [p \in 1..Len(cols) |-> [cols[p] EXCEPT !.padded = FALSE]]

\* c in df.columns
HasCol(cols, c) == \E p \in 1..Len(cols) : cols[p].name = c /\ ~cols[p].padded

\* the first missing column alone
MissingFirst(cols) ==
    LET all == SelectSeq(required_cols, LAMBDA c : ~HasCol(cols, c))
    IN  IF all = <<>> THEN <<>> ELSE <<Head(all)>>

\* missing_cols
MissingCols(cols) == SelectSeq(required_cols, LAMBDA c : ~HasCol(cols, c))

\* df[name] = default: a new last column, or the column of that header refilled
SetDefault(cols, c) ==
    IF HasCol(cols, c)
    THEN [p \in 1..Len(cols) |->
            IF cols[p].name = c /\ ~cols[p].padded THEN [cols[p] EXCEPT !.src = 0]
            ELSE cols[p]]
    ELSE Append(cols, [name |-> c, padded |-> FALSE, src |-> 0])

\* if 'メモ' not in df.columns: df['メモ'] = ""
EnsureMemo(cols) == IF ~HasCol(cols, "memo") THEN SetDefault(cols, "memo") ELSE cols

\* df.rename(columns={old: new}): every column with header old
Rename(cols, old, new) ==
    [p \in 1..Len(cols) |->
        IF cols[p].name = old.name /\ cols[p].padded = old.padded
        THEN [cols[p] EXCEPT !.name = new, !.padded = FALSE]
        ELSE cols[p]]

\* the third column becomes 'platform'; a frame with fewer columns gets a
\* platform column of "YouTube"
EnsurePlatform(cols) ==
    IF Len(cols) >= 3
    THEN IF cols[3].name # "platform" \/ cols[3].padded
         THEN Rename(cols, cols[3], "platform")
         ELSE cols
    ELSE SetDefault(cols, "platform")

\* df.empty
EmptyTable(t) == t.nrows = 0 \/ t.headers = <<>>

NoNorm == [status |-> "none", missing |-> <<>>, cols |-> <<>>, continued |-> FALSE]

\* the script from load_data() to the fillna lines: how it ends, the message
\* of the missing-columns error, the columns of df, and whether the script goes
\* on to the sidebar, the filters and the views
NormalizeTable(t) ==
    LET stripped == StripCols(ReadCols(t))
        final    == EnsurePlatform(EnsureMemo(stripped))
    IN  IF EmptyTable(t) THEN [NoNorm EXCEPT !.status = "empty"]
        ELSE IF MissingCols(stripped) # <<>>
        THEN [NoNorm EXCEPT !.status = "missing", !.missing = MissingCols(stripped)]
        ELSE IF ~HasCol(final, "memo")
        THEN [NoNorm EXCEPT !.status = "key_error", !.cols = final]
        ELSE [NoNorm EXCEPT !.status = "ok", !.cols = final, !.continued = TRUE]

\* the sheets: headers without repetition
SchemaTables ==
    [headers : UNION {{h \in [1..n -> HeaderNames] :
                          \A i, j \in 1..n : i # j => h[i] # h[j]} : n \in 0..MaxCols},
     padded : BOOLEAN,
     nrows : 0..MaxSchemaRows]

InitSchema ==
    /\ SessionIdle
    /\ table \in SchemaTables
    /\ sel = NoSel
    /\ view = NoView

\* a script run on the loaded table
RunSchema ==
    /\ view.mode = "none"
    /\ view' = [NoView EXCEPT !.mode = "schema", !.out = NormalizeTable(table)]
    /\ UNCHANGED <<table, sel, sessionVars>>

NextSchema == RunSchema

SpecSchema == InitSchema /\ [][NextSchema]_vars

\* the required columns no header of the loaded table names
AbsentCols == {required_cols[k] : k \in {k \in 1..4 :
                  \A p \in 1..Len(table.headers) : table.headers[p] # required_cols[k]}}

\* C15 (as stated): if a required column is absent from the loaded table, the
\* run ends with the error that lists exactly the absent columns, and goes on
\* to no filter, view or handler.
C15_MissingColumnsStop ==
    view.mode = "schema" /\ AbsentCols # {}
       => /\ view.out.status = "missing"
          /\ Range(view.out.missing) = AbsentCols
          /\ Len(view.out.missing) = Cardinality(AbsentCols)
          /\ ~view.out.continued

\* C15 (amended): if the loaded table has a row and lacks a required column,
\* the run ends with the error that lists exactly the absent columns; a table
\* without rows ends the run earlier, with the no-data warning; in both cases
\* the run goes on to no filter, view or handler.
C15_MissingColumnsStopNonEmpty ==
    view.mode = "schema" /\ AbsentCols # {}
       => /\ ~view.out.continued
          /\ EmptyTable(table) => view.out.status = "empty"
          /\ ~EmptyTable(table)
                => /\ view.out.status = "missing"
                   /\ Range(view.out.missing) = AbsentCols
                   /\ Len(view.out.missing) = Cardinality(AbsentCols)

\* a table with a row and without category and video_url was loaded
C15_Witness ==
    /\ view.mode = "schema"
    /\ table.nrows = 1
    /\ table.headers = <<"dancer", "site", "image_url", "memo">>
    /\ view.out.missing = <<"category", "video_url">>

\* C16: when no header of the loaded table is memo and the table has six or
\* more columns, the memo column of the working table holds the values of the
\* sixth column; it holds the default only when there is no sixth column.
C16_MemoPositionalFallback ==
    (/\ view.mode = "schema"
     /\ view.out.status = "ok"
     /\ \A p \in 1..Len(table.headers) : table.headers[p] # "memo")
       => \E p \in 1..Len(view.out.cols) :
             /\ view.out.cols[p].name = "memo"
             /\ view.out.cols[p].src = IF Len(table.headers) >= 6 THEN 6 ELSE 0

\* the columns of the working table with a header
ColsNamed(c) == {p \in 1..Len(view.out.cols) : view.out.cols[p].name = c}

\* C21: when normalization ends without the missing-columns error, the working
\* table has the four required columns, exactly one memo column and exactly
\* one platform column, whatever the order and the number of the columns of
\* the loaded table.
C21_NormalizedColumns ==
    view.mode = "schema" /\ view.out.status = "ok"
       => /\ \A k \in 1..4 : ColsNamed(required_cols[k]) # {}
          /\ Cardinality(ColsNamed("memo")) = 1
          /\ Cardinality(ColsNamed("platform")) = 1

----------------------------------------------------------------------------
(* The vocabulary specification: sorted_vocab over tables of memos *)

\* rows of a table
MaxVocabRows == 2

VocabWords == {Empty, <<97>>, <<98>>}

\* nothing, each separator of the claim, and a run of two
VocabSeps == {Empty, <<32>>, <<12288>>, <<44>>, <<12289>>, <<12290>>, <<12289, 32>>}

\* a word, separators, a word
VocabMemos == {w1 \o sp \o w2 : w1 \in VocabWords, sp \in VocabSeps, w2 \in VocabWords}

VocabTables ==
    UNION {[1..n -> {MemoRow(m) : m \in VocabMemos}] : n \in 0..MaxVocabRows}

InitVocab ==
    /\ SessionIdle
    /\ \E t \in VocabTables : table = Normalize(FromSheet(t))
    /\ sel = NoSel
    /\ view = NoView

\* the script run builds the options of the Search multiselect
BuildVocabulary ==
    /\ view.mode = "none"
    /\ view' = [NoView EXCEPT !.mode = "vocabulary", !.out = sorted_vocab(table)]
    /\ UNCHANGED <<table, sel, sessionVars>>

NextVocab == BuildVocabulary

SpecVocab == InitVocab /\ [][NextVocab]_vars

\* the maximal runs of characters of the memo that are no separators
MaximalRuns(memo) ==
    { SubSeq(memo, i, j) : <<i, j>> \in
        { ij \in (1..Len(memo)) \X (1..Len(memo)) :
            /\ ij[1] <= ij[2]
            /\ \A k \in ij[1]..ij[2] : ~IsSep(memo[k])
            /\ (ij[1] = 1 \/ IsSep(memo[ij[1] - 1]))
            /\ (ij[2] = Len(memo) \/ IsSep(memo[ij[2] + 1])) } }

\* C17: the vocabulary of a table is the list of the maximal separator-free
\* runs of its memos (separators: whitespace with the full-width space, comma,
\* ideographic comma, ideographic full stop): no entry is empty, none holds a
\* separator, none occurs twice, and the list ascends by code point.
C17_VocabularySortedSet ==
    view.mode = "vocabulary"
       => /\ Range(view.out) = UNION {MaximalRuns(table[p].memo) : p \in 1..Len(table)}
          /\ \A i \in 1..Len(view.out) :
                /\ view.out[i] # Empty
                /\ \A k \in 1..Len(view.out[i]) :
                      view.out[i][k] \notin {32, 12288, 44, 12289, 12290}
          /\ \A i, j \in 1..Len(view.out) : i < j =>
                view.out[i] # view.out[j] /\ StrLess(view.out[i], view.out[j])

\* the vocabulary a, b was built from the memos "a b" and "b、 a"
C17_Witness ==
    /\ view.mode = "vocabulary"
    /\ Len(table) = 2
    /\ table[1].memo = <<97, 32, 98>>
    /\ table[2].memo = <<98, 12289, 32, 97>>
    /\ view.out = <<<<97>>, <<98>>>>

----------------------------------------------------------------------------
(* Properties of the session specification *)

Mutations == {"add", "update", "delete"}

HasEvent(ev, e) == \E i \in 1..Len(ev) : ev[i] = e

\* a step of the session (a script run or a dialog handler), not of the environment
HandlerStep == edits' = edits /\ ~(cache.has /\ ~cache'.has /\ pc' = pc)

\* the step in which the session wrote the table
WriteStep == writes' = writes + 1

\* the cells of the sheet that hold a record of a frame
SheetRec(rec) ==
    [dancer |-> WriteCell(rec.dancer), disc |-> WriteCell(rec.disc),
     img |-> WriteCell(rec.img), video |-> WriteCell(rec.video),
     memo |-> WriteCell(rec.memo)]

\* the single change of a handler, applied to frame fresh
ChangeApplied(op, fresh) ==
    CASE op.kind = "add" ->
           Concat(fresh, NewRow(op.rec.dancer, op.rec.disc, op.rec.img, op.rec.video,
                                op.rec.memo))
      [] op.kind = "update" ->
           AtSet(fresh, op.index,
                 [op.rec EXCEPT !.img = IF Truthy(op.link) THEN op.link ELSE op.rec.img])
      [] op.kind = "delete" -> Drop(fresh, op.index)
      [] OTHER -> fresh

\* C1: every add, update and delete reads the remote table after it is triggered
\* and before it writes, and writes that freshly read table with the single
\* change applied (never the cached snapshot of load_data).
C1_WritesFreshTable ==
    [][WriteStep =>
         /\ \E i, j \in 1..Len(events') :
               i < j /\ events'[i] = "read_ok" /\ events'[j] = "write_ok"
         /\ remote' = ToSheet(ChangeApplied(lastOp', FromSheet(remote)))]_vars

\* C2: when the fresh read raises, applying the change by index raises, or the
\* write raises, the handler shows an error, issues no successful write, and
\* leaves the remote table as it was.
C2_FailureWritesNothing ==
    [][(/\ HandlerStep
        /\ lastOp'.kind \in Mutations
        /\ \/ HasEvent(events', "read_err")
           \/ HasEvent(events', "write_err")
           \/ /\ lastOp'.kind = "delete"
              /\ lastOp'.index \notin 0..(Len(remote) - 1))
       => /\ remote' = remote
          /\ writes' = writes
          /\ msg' \in {"error", "exception"}
          /\ ~HasEvent(events', "write_ok")]_vars

C2_Witness ==
    /\ lastOp.kind = "delete"
    /\ lastOp.index \notin 0..(Len(remote) - 1)
    /\ events = <<"read_ok">>
    /\ msg = "error"

\* the row of the sheet that an update of label index wrote, the sheet having
\* had n rows before
UpdatedRow(rows, index, n) == IF index + 1 <= n THEN rows[index + 1] ELSE rows[Len(rows)]

\* C3: an update with an image file uploads before it reads or writes the table;
\* a failed upload ends the update with no read and no write; after a successful
\* one the image cell written is the link of the upload, not the typed URL.
C3_UploadFirst ==
    [][(/\ HandlerStep
        /\ lastOp'.kind = "update"
        /\ (HasEvent(events', "upload_ok") \/ HasEvent(events', "upload_err")))
       => /\ events'[1] \in {"upload_ok", "upload_err"}
          /\ events'[1] = "upload_err"
                => events' = <<"upload_err">> /\ remote' = remote /\ writes' = writes
          /\ (events'[1] = "upload_ok" /\ WriteStep)
                => /\ UpdatedRow(remote', lastOp'.index, Len(remote)).img = DriveUrl
                   /\ DriveUrl # lastOp'.rec.img]_vars

C3_Witness ==
    /\ lastOp.kind = "update"
    /\ lastOp.outcome = "ok"
    /\ events = <<"upload_ok", "read_ok", "write_ok">>
    /\ \E p \in 1..Len(remote) : remote[p].img = DriveUrl

\* C4: a successful add, update or delete clears the load cache and asks for a
\* rerun, and no page is shown from a cache entry fetched before the write.
C4_ClearsCacheAndReruns ==
    /\ [](pc # "rerun" => ~dfStale)
    /\ [][WriteStep => ~cache'.has /\ pc' = "rerun"]_vars

C4_Witness ==
    /\ writes >= 1
    /\ pc = "shown"
    /\ lastOp.kind = "run"
    /\ events = <<"read_ok">>
    /\ ~extSinceFetch
    /\ ToSheet(df) = ToSheet(Normalize(FromSheet(remote)))

\* C5: with no concurrent writer, a successful add leaves a remote table with
\* one more row, whose last row equals the submitted record in dancer, category,
\* image URL, video URL and memo.
C5_AddRoundTrip ==
    [][(WriteStep /\ lastOp'.kind = "add" /\ ~extSinceFetch')
       => /\ Len(remote') = Len(remote) + 1
          /\ RowRec(remote'[Len(remote')]) = SheetRec(lastOp'.rec)]_vars

C5_Witness ==
    /\ lastOp.kind = "add"
    /\ lastOp.outcome = "ok"
    /\ pc = "rerun"
    /\ ~extSinceFetch
    /\ Len(remote) >= 2
    /\ RowRec(remote[Len(remote)]) = FullInput

\* C6: a successful delete of the card labelled i leaves the freshly read table
\* without its row at offset i, the other rows unchanged and in the same order;
\* with no concurrent writer that row is the record the card showed.
C6_DeleteRemovesRow ==
    [][(WriteStep /\ lastOp'.kind = "delete")
       => /\ lastOp'.index + 1 \in 1..Len(remote)
          /\ remote' = RemoveAt(remote, lastOp'.index + 1)
          /\ Len(remote') = Len(remote) - 1
          /\ ~extSinceFetch
                => RowRec(remote[lastOp'.index + 1]) = SheetRec(lastOp'.rec)]_vars

C6_Witness ==
    /\ lastOp.kind = "delete"
    /\ lastOp.outcome = "ok"
    /\ lastOp.index = 0
    /\ pc = "rerun"
    /\ ~extSinceFetch
    /\ Len(remote) >= 1

\* C13: a Register with a performer, a video URL and no image URL completes:
\* it writes the table with a last row whose image URL is the thumbnail the
\* resolver gives for the video URL, or empty when the resolver gives none,
\* and shows no error.
C13_AddDerivesThumbnail ==
    [][(/\ HandlerStep
        /\ lastOp'.kind = "add"
        /\ Truthy(lastOp'.rec.dancer)
        /\ Truthy(lastOp'.rec.video)
        /\ ~Truthy(lastOp'.rec.img)
        /\ ~HasEvent(events', "write_err"))
       => /\ msg' = "success"
          /\ WriteStep
          /\ remote'[Len(remote')].img = WriteCell(get_thumbnail_url(lastOp'.rec.video))]_vars

\* C14: an add or an update whose record has an empty performer or an empty
\* video URL shows a validation error and writes nothing.
C14_RequiredFields ==
    [][(/\ HandlerStep
        /\ lastOp'.kind \in {"add", "update"}
        /\ ~Truthy(lastOp'.rec.dancer) \/ ~Truthy(lastOp'.rec.video))
       => /\ msg' = "error"
          /\ remote' = remote
          /\ writes' = writes]_vars

\* C22: a successful add changes the remote table only by appending one row:
\* every cell of every row the remote table had just before the add, the empty
\* memo and platform cells included, is the same after it.
C22_AddOnlyAppends ==
    [][(WriteStep /\ lastOp'.kind = "add")
       => /\ Len(remote') = Len(remote) + 1
          /\ SubSeq(remote', 1, Len(remote)) = remote]_vars

\* C23: a successful update leaves the number of rows of the remote table as
\* it was and changes only the five edited fields of the row at the index of
\* the dialog; an update whose index the remote table no longer has (another
\* session removed rows) fails and writes nothing.
C23_UpdateKeepsRows ==
    [][/\ (WriteStep /\ lastOp'.kind = "update")
            => /\ Len(remote') = Len(remote)
               /\ lastOp'.index + 1 \in 1..Len(remote)
               /\ \A p \in 1..Len(remote) :
                     IF p = lastOp'.index + 1
                     THEN remote'[p].platform = remote[p].platform
                     ELSE remote'[p] = remote[p]
       /\ (/\ HandlerStep
           /\ lastOp'.kind = "update"
           /\ lastOp'.index + 1 \notin 1..Len(remote))
            => /\ remote' = remote
               /\ writes' = writes
               /\ msg' = "error"]_vars

\* C24: whatever the remote table holds, the empty table left by the delete of
\* the last record included, a run that fetched it renders the page with the
\* Register form, and a Register with every field filled in whose write
\* succeeds appends a row to the table of the page.
C24_RegisterAlwaysPossible ==
    [][/\ (HandlerStep /\ lastOp'.kind = "run" /\ events' = <<"read_ok">>)
            => pc' = "shown"
       /\ (/\ HandlerStep
           /\ lastOp'.kind = "add"
           /\ lastOp'.rec = FullInput
           /\ ~HasEvent(events', "write_err"))
            => /\ WriteStep
               /\ Len(remote') = Len(df') + 1]_vars

\* C25: a failed fetch of load_data is not kept in the load cache: after a run
\* that hit a fetch error and showed the fallback, the next run the user
\* triggers fetches the remote table again.
C25_FailedFetchNotCached ==
    [][(/\ HandlerStep
        /\ pc # "rerun"
        /\ events = <<"read_err">>
        /\ lastOp.kind = "run"
        /\ lastOp'.kind = "run")
       => /\ events' # <<>>
          /\ events'[1] \in {"read_ok", "read_err"}]_vars

============================================================================
